---- MODULE Spec2Model ----
(***************************************************************************)
(* A model of luci/gae's struct <-> PropertyMap mapping engine             *)
(* (service/rawdatastore/datastore_impl.go) and of the memory package's    *)
(* order-preserving binary serialisation of primitive property values.    *)
(*                                                                         *)
(* Several specifications share the module's variables, each fixing the   *)
(* ones it does not use:                                                   *)
(*   SpecBin     the binary (de)serialisers, applied to bounded inputs     *)
(*   SpecLoad    Load of bounded property maps into a record               *)
(*   SpecSave    Save of small records and of records around the ceiling   *)
(*   SpecMeta    SetMeta / GetMeta on a record with metadata fields        *)
(*   SpecSchema  schemas requested one after the other, in any order, and  *)
(*               Load / Save / GetMeta / SetMeta on records of those types *)
(*   SpecCache   goroutines obtaining struct codecs from the shared cache  *)
(***************************************************************************)
EXTENDS Integers, Sequences, FiniteSets, TLC

VARIABLES
    bufs,      \* SpecBin: the two bytes.Buffer contents, as byte sequences
    wrote,     \* SpecBin: what has been written to each buffer (a value, or NoVal)
    got,       \* SpecBin: result of the last read on buffer 1 (or NoVal)
    structCodecs, \* the process-wide cache: reflect.Type -> *structCodec
    typ,       \* the type of the record behind the structPLS
    obj,       \* the record (structPLS.o)
    res,       \* the last operation on the record and what it returned (or NoVal)
    lastSet,   \* SpecMeta: the last call of SetMeta and what it returned
    mutex,     \* SpecCache: structCodecsMutex: its writer (0 if none) and its readers
    pc,        \* SpecCache: where each goroutine is in getCodec
    want,      \* SpecCache: the type each goroutine asked for
    have,      \* SpecCache: the codec each goroutine obtained (or NoVal)
    built      \* history: how many times a codec was created for each type

binVars == <<bufs, wrote, got>>
plsVars == <<typ, obj, res, lastSet>>
cacheVars == <<mutex, pc, want, have, built>>
vars == <<bufs, wrote, got, structCodecs, typ, obj, res, lastSet,
          mutex, pc, want, have, built>>

NoVal == [kind |-> "none"]

(***************************************************************************)
(* Bytes, and uint64 / int64 as 8 big-endian bytes (TLC's integers are 32  *)
(* bits wide, so 64-bit arithmetic is done on the bytes, modulo 2^64).     *)
(***************************************************************************)
Byte == 0..255

RECURSIVE XorBits(_, _, _)
XorBits(a, b, n) ==
    IF n = 0 THEN 0
    ELSE (IF (a % 2) = (b % 2) THEN 0 ELSE 1) + 2 * XorBits(a \div 2, b \div 2, n - 1)

\* a ^ b on one byte
XorByte(a, b) == XorBits(a, b, 8)

\* a ^ b on uint64
Xor64(a, b) == [i \in 1..8 |-> XorByte(a[i], b[i])]

Zero64 == [i \in 1..8 |-> 0]
Ones64 == [i \in 1..8 |-> 255]
\* 1 << 63
TopBit64 == [i \in 1..8 |-> IF i = 1 THEN 128 ELSE 0]

\* bits >> 63, as 0 or 1
Shr63(bits) == bits[1] \div 128

\* a | b where a is 0 or all ones and b is 1<<63
OrTop(allOnes) == IF allOnes THEN Ones64 ELSE TopBit64

\* unsigned lexicographic comparison of byte sequences (bytes.Compare(a, b) < 0)
RECURSIVE BytesLess(_, _)
BytesLess(a, b) ==
    IF b = <<>> THEN FALSE
    ELSE IF a = <<>> THEN TRUE
    ELSE IF Head(a) # Head(b) THEN Head(a) < Head(b)
    ELSE BytesLess(Tail(a), Tail(b))

\* uint64(i) for a small Go int64 i (two's complement for negatives)
RECURSIVE NatTo64(_, _)
NatTo64(n, k) == IF k = 0 THEN <<>> ELSE Append(NatTo64(n \div 256, k - 1), n % 256)

U64OfInt(i) == IF i >= 0 THEN NatTo64(i, 8)
               ELSE Xor64(NatTo64((-i) - 1, 8), Ones64)

\* (v * m + c) mod 2^64 on bytes, least significant byte first; c < 2^20, m <= 10^6
RECURSIVE MulAddRev(_, _, _)
MulAddRev(rev, m, c) ==
    IF rev = <<>> THEN <<>>
    ELSE LET x == Head(rev) * m + c
         IN  <<x % 256>> \o MulAddRev(Tail(rev), m, x \div 256)

Reverse(s) == [i \in 1..Len(s) |-> s[Len(s) + 1 - i]]

MulAdd64(v, m, c) == Reverse(MulAddRev(Reverse(v), m, c))

\* long division of a uint64 by d <= 10^6: <<quotient (8 bytes), remainder>>
RECURSIVE DivModFrom(_, _, _, _)
DivModFrom(v, i, d, rem) ==
    IF i > Len(v) THEN [q |-> <<>>, r |-> rem]
    ELSE LET x    == rem * 256 + v[i]
             rest == DivModFrom(v, i + 1, d, x % d)
         IN  [q |-> <<x \div d>> \o rest.q, r |-> rest.r]

DivMod64(v, d) == DivModFrom(v, 1, d, 0)

\* the value of a uint64 when it is below 2^24, else -1 ("too large for the model")
SmallOf64(v) == IF \A i \in 1..5 : v[i] = 0
                THEN (v[6] * 256 + v[7]) * 256 + v[8]
                ELSE -1

(***************************************************************************)
(* bytes.Buffer and the funnybase unsigned varint                          *)
(***************************************************************************)
\* buf.Read(p) with len(p) = n: copies min(n, len(buf)) bytes into the
\* zero-initialised p; the error is io.EOF only when the buffer is empty and
\* n > 0, and nil otherwise (also on a short read).
BufRead(buf, n) ==
    LET k == IF Len(buf) < n THEN Len(buf) ELSE n
    IN  [data |-> [i \in 1..n |-> IF i <= k THEN buf[i] ELSE 0],
         n    |-> k,
         err  |-> IF Len(buf) = 0 /\ n > 0 THEN "EOF" ELSE "",
         buf  |-> SubSeq(buf, k + 1, Len(buf))]

RECURSIVE StripZeros(_)
StripZeros(v) == IF v # <<>> /\ Head(v) = 0 THEN StripZeros(Tail(v)) ELSE v

\* funnybase.WriteUint: a self-describing, length-prefixed big-endian form
\* whose byte order is the numeric order: the count of significant bytes,
\* then those bytes.
WriteUint(buf, v) == LET sig == StripZeros(v) IN buf \o <<Len(sig)>> \o sig

\* funnybase.ReadUint: fails on an empty or truncated buffer and on a length
\* prefix no uint64 has.
ReadUint(buf) ==
    IF buf = <<>> THEN [val |-> Zero64, err |-> "EOF", buf |-> buf]
    ELSE LET n == Head(buf) IN
         IF n > 8 THEN [val |-> Zero64, err |-> "overflow", buf |-> Tail(buf)]
         ELSE IF Len(buf) < 1 + n THEN [val |-> Zero64, err |-> "EOF", buf |-> <<>>]
         ELSE [val |-> [i \in 1..8 |-> IF i <= 8 - n THEN 0 ELSE buf[1 + i - (8 - n)]],
               err |-> "",
               buf |-> SubSeq(buf, n + 2, Len(buf))]

(***************************************************************************)
(* The serialisers                                                         *)
(***************************************************************************)
\* readBytes' 2MB ceiling: 2*1024*1024
maxReadBytes == 2097152

writeBytes(buf, b) == WriteUint(buf, NatTo64(Len(b), 8)) \o b

writeString(buf, s) == WriteUint(buf, NatTo64(Len(s), 8)) \o s

readBytes(buf) ==
    LET u == ReadUint(buf) IN
    IF u.err # "" THEN [val |-> <<>>, err |-> u.err, buf |-> u.buf]
    ELSE IF SmallOf64(u.val) = -1 \/ SmallOf64(u.val) > maxReadBytes
         THEN [val |-> <<>>, err |-> "readBytes: > 2MB", buf |-> u.buf]
    ELSE LET r == BufRead(u.buf, SmallOf64(u.val)) IN
         IF r.n # SmallOf64(u.val)
         THEN [val |-> <<>>, err |-> "readBytes: short read", buf |-> r.buf]
         ELSE [val |-> r.data, err |-> u.err, buf |-> r.buf]

readString(buf) ==
    LET b == readBytes(buf) IN
    IF b.err # "" THEN [val |-> <<>>, err |-> b.err, buf |-> b.buf]
    ELSE [val |-> b.val, err |-> "", buf |-> b.buf]

\* bits ^ (-(bits >> 63) | (1 << 63))
writeFloat64(buf, v) == buf \o Xor64(v, OrTop(Shr63(v) = 1))

\* bits ^ (((bits >> 63) - 1) | (1 << 63)); only Read's error is looked at
readFloat64(buf) ==
    LET r == BufRead(buf, 8) IN
    IF r.err # "" THEN [val |-> Zero64, err |-> r.err, buf |-> r.buf]
    ELSE [val |-> Xor64(r.data, OrTop(Shr63(r.data) = 0)), err |-> "", buf |-> r.buf]

\* uint64(t.Unix())*1e6 + uint64(t.Nanosecond()/1e3)
writeTime(buf, t) == WriteUint(buf, MulAdd64(U64OfInt(t.sec), 1000000, t.nsec \div 1000))

\* time.Unix(int64(v/1e6), int64((v%1e6)*1e3)); sec is kept as an int64 in bytes
readTime(buf) ==
    LET u == ReadUint(buf) IN
    IF u.err # "" THEN [val |-> [sec |-> Zero64, nsec |-> 0], err |-> u.err, buf |-> u.buf]
    ELSE LET d == DivMod64(u.val, 1000000)
         IN  [val |-> [sec |-> d.q, nsec |-> d.r * 1000], err |-> "", buf |-> u.buf]

writeGeoPoint(buf, gp) == writeFloat64(writeFloat64(buf, gp.lat), gp.lng)

readGeoPoint(buf) ==
    LET a == readFloat64(buf) IN
    IF a.err # "" THEN [val |-> [lat |-> a.val, lng |-> Zero64], err |-> a.err, buf |-> a.buf]
    ELSE LET b == readFloat64(a.buf)
         IN  [val |-> [lat |-> a.val, lng |-> b.val], err |-> b.err, buf |-> b.buf]

(***************************************************************************)
(* SpecBin: inputs, state and actions                                      *)
(***************************************************************************)
\* timestamps range over -MaxSec..MaxSec seconds around the Unix epoch
MaxSec == 1
\* strings and byte sequences have at most MaxLen bytes
MaxLen == 2

\* float64 bit patterns: +-0, denormals, ordinary values, +-Inf and NaNs
FloatBits == { <<b1, b2, 0, 0, 0, 0, 0, b8>> :
                 b1 \in {0, 63, 127, 128, 191, 255}, b2 \in {0, 240, 248}, b8 \in {0, 1} }

IsNaN(f) == /\ f[1] % 128 = 127
            /\ f[2] >= 240
            /\ (f[2] % 16 # 0 \/ \E i \in 3..8 : f[i] # 0)

\* the magnitude bits of a float64
Magnitude(f) == [f EXCEPT ![1] = f[1] % 128]

\* IEEE-754 a < b on two non-NaN values (-0 and +0 are equal)
FloatLess(a, b) ==
    LET na == a[1] >= 128
        nb == b[1] >= 128
        ma == Magnitude(a)
        mb == Magnitude(b)
    IN  IF ma = Zero64 /\ mb = Zero64 THEN FALSE
        ELSE IF na /\ ~nb THEN TRUE
        ELSE IF ~na /\ nb THEN FALSE
        ELSE IF na THEN BytesLess(mb, ma)
        ELSE BytesLess(ma, mb)

Times == [sec : (-MaxSec)..MaxSec, nsec : {0, 1, 999, 1000, 999999999}]

\* time.Time.Before
TimeLess(a, b) == a.sec < b.sec \/ (a.sec = b.sec /\ a.nsec < b.nsec)

\* t truncated to microseconds, as readTime represents it
TruncMicro(t) == [sec |-> U64OfInt(t.sec), nsec |-> (t.nsec \div 1000) * 1000]

ByteStrings == UNION { [1..n -> {0, 65, 255}] : n \in 0..MaxLen }

GeoPoints == [lat : {f \in FloatBits : f[2] = 240 /\ f[8] = 0},
              lng : {f \in FloatBits : f[1] \in {63, 191} /\ f[8] = 1}]

\* the bytes the writer of x's kind appends to buf
Encode(buf, x) ==
    CASE x.kind = "float"  -> writeFloat64(buf, x.v)
      [] x.kind = "time"   -> writeTime(buf, x.v)
      [] x.kind = "string" -> writeString(buf, x.v)
      [] x.kind = "bytes"  -> writeBytes(buf, x.v)
      [] x.kind = "geo"    -> writeGeoPoint(buf, x.v)

Prefixes(enc) == { SubSeq(enc, 1, n) : n \in 0..Len(enc) }

\* buffers that arrive from elsewhere: cut-off encodings, and length prefixes
\* of exactly 2MB and of 2MB + 1 with (almost) nothing behind them
ProperPrefixes(S) == UNION { Prefixes(enc) \ {enc} : enc \in S }

TruncatedBuffers ==
    ProperPrefixes({ writeGeoPoint(<<>>, gp) : gp \in GeoPoints })
    \cup ProperPrefixes({ writeFloat64(<<>>, f) : f \in {g \in FloatBits : g[2] = 240} })
    \cup ProperPrefixes({ writeTime(<<>>, t) : t \in {u \in Times : u.nsec = 1000} })
    \cup ProperPrefixes({ writeString(<<>>, b) : b \in {c \in ByteStrings : Len(c) = MaxLen} })
    \cup { <<3, 32, 0, 0, 65>>, <<3, 32, 0, 1, 65>> }

\* no record is in play
NoPLS == typ = "" /\ obj = <<>> /\ res = NoVal /\ lastSet = NoVal

\* no goroutine is in play
NoCache ==
    /\ mutex = [writer |-> 0, readers |-> {}]
    /\ pc = <<>> /\ want = <<>> /\ have = <<>> /\ built = <<>>

BinInit ==
    /\ structCodecs = <<>>
    /\ NoPLS
    /\ NoCache
    /\ bufs \in [{1} -> TruncatedBuffers \cup {<<>>}] \cup [{1, 2} -> {<<>>}]
    /\ wrote = [i \in DOMAIN bufs |-> NoVal]
    /\ got = NoVal

\* one of the five writers, on an empty buffer
Write(i, x) ==
    /\ wrote[i] = NoVal /\ bufs[i] = <<>> /\ got = NoVal
    /\ bufs' = [bufs EXCEPT ![i] = Encode(bufs[i], x)]
    /\ wrote' = [wrote EXCEPT ![i] = x]
    /\ UNCHANGED <<got, structCodecs, plsVars, cacheVars>>

WriteFloat64(i) == \E v \in FloatBits : Write(i, [kind |-> "float", v |-> v])
WriteTime(i) == \E t \in Times : Write(i, [kind |-> "time", v |-> t])
WriteString(i) == \E s \in ByteStrings : Write(i, [kind |-> "string", v |-> s])
WriteBytes(i) == \E b \in ByteStrings : Write(i, [kind |-> "bytes", v |-> b])
WriteGeoPoint(i) == \E gp \in GeoPoints : Write(i, [kind |-> "geo", v |-> gp])

\* one read on buffer 1; the buffer read from is kept in got.before
Read(kind, r) ==
    /\ got = NoVal
    /\ DOMAIN bufs = {1}
    /\ got' = [kind |-> kind, val |-> r.val, err |-> r.err, before |-> bufs[1]]
    /\ bufs' = [bufs EXCEPT ![1] = r.buf]
    /\ UNCHANGED <<wrote, structCodecs, plsVars, cacheVars>>

ReadFloat64 == Read("float", readFloat64(bufs[1]))
ReadTime == Read("time", readTime(bufs[1]))
ReadString == Read("string", readString(bufs[1]))
ReadBytes == Read("bytes", readBytes(bufs[1]))
ReadGeoPoint == Read("geo", readGeoPoint(bufs[1]))

BinNext ==
    \/ \E i \in DOMAIN bufs : WriteFloat64(i)
    \/ \E i \in DOMAIN bufs : WriteTime(i)
    \/ \E i \in DOMAIN bufs : WriteString(i)
    \/ \E i \in DOMAIN bufs : WriteBytes(i)
    \/ \E i \in DOMAIN bufs : WriteGeoPoint(i)
    \/ ReadFloat64
    \/ ReadTime
    \/ ReadString
    \/ ReadBytes
    \/ ReadGeoPoint

SpecBin == BinInit /\ [][BinNext]_vars

(***************************************************************************)
(* Claims about the serialisers                                            *)
(***************************************************************************)
BothWritten(kind) ==
    /\ DOMAIN bufs = {1, 2}
    /\ wrote[1].kind = kind /\ wrote[2].kind = kind

\* C1: encoding is strictly order-preserving: whenever float64 a < b (neither
\* a NaN) or timestamp a is before timestamp b (before the epoch and less
\* than a microsecond apart included), the bytes written for a are strictly
\* less, as unsigned byte sequences, than the bytes written for b.
C1_OrderPreserving ==
    /\ (BothWritten("float") /\ ~IsNaN(wrote[1].v) /\ ~IsNaN(wrote[2].v)
          /\ FloatLess(wrote[1].v, wrote[2].v))
       => BytesLess(bufs[1], bufs[2])
    /\ (BothWritten("time") /\ TimeLess(wrote[1].v, wrote[2].v))
       => BytesLess(bufs[1], bufs[2])

\* a value was written to the empty buffer 1 and read back by the reader of
\* its own kind
ReadBack == /\ got # NoVal
            /\ wrote[1] # NoVal
            /\ got.kind = wrote[1].kind

\* C2: round trip: reading back from a buffer that holds exactly the bytes
\* written for a value returns that value (a timestamp truncated to
\* microseconds) without error and leaves the buffer empty.
C2_RoundTrip ==
    ReadBack =>
        /\ got.err = ""
        /\ bufs[1] = <<>>
        /\ got.val = IF got.kind = "time" THEN TruncMicro(wrote[1].v) ELSE wrote[1].v

\* the bytes the reader of a kind needs from a buffer that starts as b does
Needs(kind, b) ==
    CASE kind = "float" -> 8
      [] kind = "geo"   -> 16
      [] kind = "time"  -> IF b = <<>> THEN 1 ELSE 1 + Head(b)
      [] OTHER          -> IF b = <<>> THEN 1
                           ELSE IF Len(b) < 1 + Head(b) \/ Head(b) > 3 THEN 1 + Head(b)
                           ELSE 1 + Head(b) + SmallOf64(ReadUint(b).val)

\* C9: truncated input is always a decode error: a decoder given fewer
\* bytes than the value it decodes needs returns an error, never a value
\* with a nil error.
C9_TruncatedIsError ==
    (got # NoVal /\ Len(got.before) < Needs(got.kind, got.before)) => got.err # ""

(***************************************************************************)
(* Record types.  A reflect.Type of struct kind is its name; Fields gives  *)
(* its fields in declaration order.  A field type is [kind, of, conv]:     *)
(* "of" names the struct type (kind "struct"), the interface (kind         *)
(* "iface") or holds the element type (kind "slice"); conv says that a     *)
(* pointer to the type implements PropertyConverter.  A `gae:"..."` tag is *)
(* held split at its first comma into name and opts; the name is held as   *)
(* its dot-separated segments, with the leading '$' of a meta tag as the   *)
(* flag meta.  Property names are sequences of segments throughout:        *)
(* "I.X" is <<"I", "X">>, and the prefix "I." is <<"I">>.                *)
(***************************************************************************)
FT(kind) == [kind |-> kind, of |-> "", conv |-> FALSE]
StructT(name) == [kind |-> "struct", of |-> name, conv |-> FALSE]
SliceT(elem) == [kind |-> "slice", of |-> elem, conv |-> FALSE]
IfaceT(name) == [kind |-> "iface", of |-> name, conv |-> FALSE]
\* a named int64 type with ToProperty / FromProperty methods
ConvT == [kind |-> "int64", of |-> "", conv |-> TRUE]

NoTag == [name |-> <<>>, meta |-> FALSE, opts |-> ""]
Tag(name, opts) == [name |-> name, meta |-> FALSE, opts |-> opts]
MetaTag(name, opts) == [name |-> <<name>>, meta |-> TRUE, opts |-> opts]

Fld(name, tag, type) ==
    [Name |-> name, tag |-> tag, exported |-> TRUE, anon |-> FALSE, type |-> type]
Unexported(name, tag, type) ==
    [Name |-> name, tag |-> tag, exported |-> FALSE, anon |-> FALSE, type |-> type]

typeOfTime == StructT("time.Time")
typeOfGeoPoint == StructT("GeoPoint")
typeOfKey == IfaceT("Key")

Fields(t) ==
    CASE t = "time.Time" ->
           << Unexported("sec", NoTag, FT("int64")),
              Unexported("nsec", NoTag, FT("int32")),
              Unexported("loc", NoTag, FT("ptr")) >>
      [] t = "GeoPoint" ->
           << Fld("Lat", NoTag, FT("float64")), Fld("Lng", NoTag, FT("float64")) >>
      [] t = "Inner" ->
           << Fld("X", NoTag, FT("int64")),
              Fld("Y", Tag(<<>>, "noindex"), FT("string")) >>
      [] t = "InnerS" ->
           << Fld("Xs", NoTag, SliceT(FT("int64"))) >>
      [] t = "Outer" ->
           << Fld("A", NoTag, SliceT(FT("int64"))),
              Fld("B", Tag(<<"b">>, "noindex"), SliceT(FT("int64"))),
              Fld("S", NoTag, StructT("InnerS")),
              Fld("Is", NoTag, SliceT(StructT("Inner"))),
              Fld("C", NoTag, SliceT(ConvT)),
              Fld("Skip", Tag(<<"-">>, ""), FT("int64")),
              Fld("ID", MetaTag("id", "5"), FT("int64")) >>
      [] t = "Ent" ->
           << Fld("I", NoTag, FT("int64")),
              Fld("I8", NoTag, FT("int8")),
              Fld("B", NoTag, FT("bool")),
              Fld("S", NoTag, FT("string")),
              Fld("F", NoTag, FT("float64")),
              Fld("F32", NoTag, FT("float32")),
              Fld("K", NoTag, typeOfKey),
              Fld("T", NoTag, typeOfTime),
              Fld("G", NoTag, typeOfGeoPoint),
              Fld("BS", NoTag, SliceT(FT("uint8"))),
              Fld("IS", NoTag, SliceT(FT("int64"))),
              Fld("TS", NoTag, SliceT(typeOfTime)),
              Fld("C", NoTag, ConvT),
              Fld("Sub", NoTag, StructT("Inner")),
              Fld("Subs", Tag(<<"subs">>, ""), SliceT(StructT("Inner"))) >>
      [] t = "Meta" ->
           << Fld("ID", MetaTag("id", "5"), FT("int64")),
              Fld("N", MetaTag("n", ""), FT("int64")),
              Fld("Kind", MetaTag("kind", "K"), FT("string")),
              Fld("Name", MetaTag("name", ""), FT("string")),
              Fld("On", MetaTag("on", "on"), FT("toggle")),
              Fld("Off", MetaTag("off", "false"), FT("toggle")),
              Unexported("hid", MetaTag("hid", "7"), FT("int64")),
              Fld("Val", NoTag, FT("int64")) >>
      [] t = "CycA" ->
           << Fld("V", NoTag, FT("int64")), Fld("B", NoTag, StructT("CycB")) >>
      [] t = "CycB" ->
           << Fld("As", NoTag, SliceT(StructT("CycA"))) >>
      [] t = "Self" ->
           << Fld("Kids", NoTag, SliceT(StructT("Self"))) >>
      [] t = "UsesCyc" ->
           << Fld("V", NoTag, FT("int64")), Fld("C", NoTag, StructT("CycA")) >>
      [] t = "BadName" ->
           << Fld("V", NoTag, FT("int64")), Fld("X", Tag(<<"1bad">>, ""), FT("int64")) >>
      [] t = "Dup" ->
           << Fld("X", NoTag, FT("int64")), Fld("I", NoTag, StructT("Inner")),
              Fld("Z", Tag(<<"I", "X">>, ""), FT("string")) >>
      [] t = "SliceSlice" ->
           << Fld("Ss", NoTag, SliceT(StructT("InnerS"))) >>
      [] t = "BadIface" ->
           << Fld("X", NoTag, IfaceT("interface{}")) >>
      [] t = "BadType" ->
           << Fld("U", NoTag, FT("uint")) >>
      [] t = "BadMeta" ->
           << Fld("ID", MetaTag("id", ""), FT("int64")),
              Fld("T", MetaTag("t", ""), FT("toggle")) >>
      [] t = "DupMeta" ->
           << Fld("ID", MetaTag("id", ""), FT("int64")),
              Fld("ID2", MetaTag("id", "7"), FT("int64")) >>

Types == {"time.Time", "GeoPoint", "Inner", "InnerS", "Outer", "Ent", "Meta",
          "CycA", "CycB", "Self", "UsesCyc", "BadName", "Dup", "SliceSlice",
          "BadIface", "BadType", "BadMeta", "DupMeta"}

NumField(t) == Len(Fields(t))

(***************************************************************************)
(* Schema construction: getStructCodecLocked                               *)
(*                                                                         *)
(* A *structCodec is identified with the type it was built for (the cache  *)
(* holds one per type), so substructCodec is that type, "" for nil.  An     *)
(* error is the sequence of the words of its message, <<>> for nil.  A Go  *)
(* map is a function; a nil map or slice is <<>>, which reads like an      *)
(* empty one in Go too.                                                    *)
(***************************************************************************)
nil == <<>>

errRecursiveStruct == <<"(internal): struct type is recursively defined">>

\* fmt.Errorf
me(words) == words

MapPut(m, k, v) == [x \in DOMAIN m \cup {k} |-> IF x = k THEN v ELSE m[x]]

MapHas(m, k) == k \in DOMAIN m

\* the zero structTag
zeroStructTag ==
    [name |-> <<>>, idxSetting |-> "ShouldIndex", isSlice |-> FALSE,
     substructCodec |-> "", convert |-> FALSE, metaVal |-> NoVal, canSet |-> FALSE]

\* unicode.IsLetter / IsDigit on the characters of one segment, tabulated for
\* the segments that occur in tags of Types
ValidSegment(seg) == seg \notin {"", "1bad", "a-b", "-"}

validPropertyName(name) ==
    /\ name # <<>>
    /\ \A i \in 1..Len(name) : ValidSegment(name[i])

\* strconv.ParseInt(val, 10, 64), tabulated for the defaults that occur
ParseInt(val) ==
    CASE val = "0" -> [v |-> 0, err |-> FALSE]
      [] val = "5" -> [v |-> 5, err |-> FALSE]
      [] val = "7" -> [v |-> 7, err |-> FALSE]
      [] OTHER     -> [v |-> 0, err |-> TRUE]

convertMeta(val, t) ==
    CASE t = FT("string") -> [val |-> [kind |-> "string", v |-> val], err |-> FALSE]
      [] t = FT("int64") ->
           IF val = "" THEN [val |-> [kind |-> "int64", v |-> 0], err |-> FALSE]
           ELSE [val |-> [kind |-> "int64", v |-> ParseInt(val).v], err |-> ParseInt(val).err]
      [] t = FT("toggle") ->
           IF val \in {"on", "On", "true"} THEN [val |-> [kind |-> "bool", v |-> TRUE], err |-> FALSE]
           ELSE IF val \in {"off", "Off", "false"}
                THEN [val |-> [kind |-> "bool", v |-> FALSE], err |-> FALSE]
           ELSE [val |-> NoVal, err |-> TRUE]
      [] OTHER -> [val |-> NoVal, err |-> TRUE]

\* PropertyTypeOf(UpconvertUnderlyingType(zero value of t)) succeeds
ValidPropertyType(t) ==
    \/ t.kind \in {"int", "int8", "int16", "int32", "int64", "bool", "string",
                   "float32", "float64"}
    \/ t = typeOfKey \/ t = typeOfTime \/ t = typeOfGeoPoint
    \/ (t.kind = "slice" /\ t.of.kind = "uint8")

\* c = &structCodec{...}: lines 417-422
newStructCodec(t) ==
    [byIndex |-> [i \in 1..NumField(t) |-> zeroStructTag],
     byName |-> <<>>, byMeta |-> <<>>, hasSlice |-> FALSE,
     problem |-> errRecursiveStruct]

\* the deferred function: a codec with a problem frees its indexes
FreeIndexes(c) ==
    IF c.problem # nil
    THEN [c EXCEPT !.byIndex = nil, !.byName = nil, !.byMeta = nil]
    ELSE c

\* c.problem = ...; return
Fail(cache, t, c, problem) ==
    [cache |-> [cache EXCEPT ![t] = FreeIndexes([c EXCEPT !.problem = problem])],
     stop |-> TRUE]

\* the end of one iteration of the loop over the fields
Continue(cache, t, c) == [cache |-> [cache EXCEPT ![t] = c], stop |-> FALSE]

\* the problem a nested codec's problem becomes: lines 504-511
SubProblem(fname, subProblem) ==
    IF subProblem = errRecursiveStruct
    THEN me(<<"field", fname, "is recursively defined">>)
    ELSE me(<<"field", fname, "has problem:">> \o subProblem)

\* the property name of field f: its tag's, or the field's own: lines 443-446
FieldPropName(f) == IF f.tag.name = <<>> /\ ~f.anon THEN <<f.Name>> ELSE f.tag.name

\* st.convert: the field's type, or its element type, is a PropertyConverter
Convert(ft) == ft.conv \/ (ft.kind = "slice" /\ ft.of.conv)

\* the struct type nested in a field of type ft, if any: lines 475-490
SubstructType(ft) ==
    IF ft.conv THEN ""
    ELSE IF ft.kind = "struct"
         THEN (IF ft # typeOfTime /\ ft # typeOfGeoPoint THEN ft.of ELSE "")
    ELSE IF ft.kind = "slice" /\ ~ft.of.conv /\ ft.of.kind = "struct"
         THEN ft.of.of
    ELSE ""

\* st.isSlice: a slice other than []byte
IsSlice(ft) == ~ft.conv /\ ft.kind = "slice" /\ ft.of.kind # "uint8"

\* st.name = "-"; continue
Skip(cache, t, i, c) == Continue(cache, t, [c EXCEPT !.byIndex[i].name = <<"-">>])

\* st.name = name; st.idxSetting from the tag's options: lines 551-554
Named(c, i, f) ==
    [c EXCEPT !.byIndex[i].name = FieldPropName(f),
              !.byIndex[i].idxSetting = IF f.tag.opts = "noindex" THEN "NoIndex"
                                        ELSE "ShouldIndex"]

\* a field whose tag starts with "$": lines 447-463
metaField(cache, t, i, f, c0, mv) ==
    IF MapHas(c0.byMeta, f.tag.name)
    THEN Fail(cache, t, c0, me(<<"meta field set multiple times:", "$">> \o f.tag.name))
    ELSE IF mv.err
    THEN Fail(cache, t, [c0 EXCEPT !.byMeta = MapPut(@, f.tag.name, i)],
              me(<<"meta field has bad type:", "$">> \o f.tag.name))
    ELSE Skip(cache, t, i, [c0 EXCEPT !.byMeta = MapPut(@, f.tag.name, i),
                                      !.byIndex[i].metaVal = mv.val])

\* a field of a nested struct type, after is the cache the nested
\* getStructCodecLocked left: lines 502-530
substructField(after, t, i, f, c1, substructType) ==
    LET sub   == after[substructType]
        abs   == { FieldPropName(f) \o relName : relName \in DOMAIN sub.byName }
        c2    == [c1 EXCEPT !.byIndex[i].substructCodec = substructType,
                            !.hasSlice = @ \/ sub.hasSlice]
    IN  IF sub.problem # nil
        THEN Fail(after, t, c1, SubProblem(f.Name, sub.problem))
        ELSE IF IsSlice(f.type) /\ sub.hasSlice
        THEN Fail(after, t, [c1 EXCEPT !.byIndex[i].substructCodec = substructType],
                  me(<<"flattening nested structs leads to a slice of slices: field",
                       f.Name>>))
        ELSE IF abs \cap DOMAIN c2.byName # {}
        THEN Fail(after, t, c2,
                  me(<<"struct tag has repeated property name:">>
                     \o (CHOOSE absName \in abs : MapHas(c2.byName, absName))))
        ELSE Continue(after, t,
                      Named([c2 EXCEPT !.byName =
                               [x \in DOMAIN @ \cup abs |-> IF x \in abs THEN i ELSE @[x]]],
                            i, f))

\* a field of any other type: lines 531-550
plainField(cache, t, i, f, c1) ==
    IF ~Convert(f.type) /\ ~ValidPropertyType(IF IsSlice(f.type) THEN f.type.of ELSE f.type)
    THEN Fail(cache, t, c1, me(<<"field has invalid type:">> \o FieldPropName(f)))
    ELSE IF MapHas(c1.byName, FieldPropName(f))
    THEN Fail(cache, t, c1, me(<<"struct tag has repeated property name:">> \o FieldPropName(f)))
    ELSE Continue(cache, t, Named([c1 EXCEPT !.byName = MapPut(@, FieldPropName(f), i)], i, f))

RECURSIVE getStructCodecLocked(_, _)
RECURSIVE processFields(_, _, _)

\* One iteration of the loop over the fields (lines 434-555), for field i of
\* t, which is f, and whose codec under construction is cache[t]; c0 is that
\* codec with canSet, c1 with convert, isSlice and hasSlice as well.  The
\* nested getStructCodecLocked runs on the cache that already holds c1.
fieldStep(cache, t, i, f, c0, c1) ==
    IF f.tag.meta THEN metaField(cache, t, i, f, c0, convertMeta(f.tag.opts, f.type))
    ELSE IF f.tag.name = <<"-">> THEN Skip(cache, t, i, c0)
    ELSE IF f.tag.name # <<>> /\ ~validPropertyName(f.tag.name)
         THEN Fail(cache, t, c0, me(<<"struct tag has invalid property name:">> \o f.tag.name))
    ELSE IF ~f.exported THEN Skip(cache, t, i, c0)
    ELSE IF ~f.type.conv /\ f.type.kind = "iface" /\ f.type # typeOfKey
         THEN Fail(cache, t, c0, me(<<"field", f.Name, "has non-concrete interface type">>))
    ELSE IF SubstructType(f.type) # ""
    THEN substructField(getStructCodecLocked([cache EXCEPT ![t] = c1], SubstructType(f.type)),
                        t, i, f, c1, SubstructType(f.type))
    ELSE plainField(cache, t, i, f, c1)

\* st.canSet = f.PkgPath == "": line 441
WithCanSet(c, i, f) == [c EXCEPT !.byIndex[i].canSet = f.exported]

\* st.convert, st.isSlice, c.hasSlice: lines 475-500
WithKind(c, i, f) ==
    [c EXCEPT !.byIndex[i].convert = Convert(f.type),
              !.byIndex[i].isSlice = IsSlice(f.type),
              !.hasSlice = @ \/ IsSlice(f.type)]

fieldOf(cache, t, i, f) ==
    fieldStep(cache, t, i, f, WithCanSet(cache[t], i, f),
              WithKind(WithCanSet(cache[t], i, f), i, f))

processField(cache, t, i) == fieldOf(cache, t, i, Fields(t)[i])

\* lines 556-558: the codec is not recursive after all
ClearMarker(c) == IF c.problem = errRecursiveStruct THEN [c EXCEPT !.problem = nil] ELSE c

RECURSIVE nextField(_, _, _)
\* the loop over the fields from field i on, and what follows it: lines 433-560
processFields(cache, t, i) ==
    IF i > NumField(t)
    THEN [cache EXCEPT ![t] = FreeIndexes(ClearMarker(cache[t]))]
    ELSE nextField(processField(cache, t, i), t, i)

\* return, or the next iteration, after the iteration r for field i
nextField(r, t, i) == IF r.stop THEN r.cache ELSE processFields(r.cache, t, i + 1)

\* structCodecs[t] = c, with the new codec still marked recursive: line 431
InsertNew(cache, t) == [x \in DOMAIN cache \cup {t} |-> IF x = t THEN newStructCodec(t) ELSE cache[x]]

\* The cache after getStructCodecLocked(t); the codec returned is its entry t.
getStructCodecLocked(cache, t) ==
    IF t \in DOMAIN cache THEN cache
    ELSE processFields(InsertNew(cache, t), t, 1)

(***************************************************************************)
(* Go values and properties                                                *)
(*                                                                         *)
(* A struct value is the sequence of its field values.  Integers, booleans *)
(* and strings are themselves; a float64 is [m, e], standing for m * 10^e  *)
(* with a one-digit m; a time.Time is a number of microseconds (0 is the   *)
(* zero time); a Key is a non-empty string and the nil Key is ""; a Toggle *)
(* is "Auto", "On" or "Off"; a slice is a sequence.                        *)
(* A Property is [pt, v, idx]: the variant of its value, the value and the *)
(* IndexSetting.                                                           *)
(***************************************************************************)
RECURSIVE ZeroOf(_)
\* reflect.Zero(t) / reflect.New(t).Elem()
ZeroOf(ft) ==
    CASE ft.kind \in {"int", "int8", "int16", "int32", "int64", "uint"} -> 0
      [] ft.kind = "bool" -> FALSE
      [] ft.kind = "string" -> ""
      [] ft.kind \in {"float32", "float64"} -> [m |-> 0, e |-> 0]
      [] ft.kind = "iface" -> ""
      [] ft.kind = "toggle" -> "Auto"
      [] ft.kind = "slice" -> <<>>
      [] ft = typeOfTime -> 0
      [] ft = typeOfGeoPoint -> [lat |-> [m |-> 0, e |-> 0], lng |-> [m |-> 0, e |-> 0]]
      [] OTHER -> [i \in 1..NumField(ft.of) |-> ZeroOf(Fields(ft.of)[i].type)]

Prop(pt, v, idx) == [idx |-> idx, pt |-> pt, v |-> v]

\* v.OverflowInt(x) for the kind's width
OverflowInt(kind, x) ==
    CASE kind = "int8"  -> x < -128 \/ x > 127
      [] kind = "int16" -> x < -32768 \/ x > 32767
      [] OTHER -> FALSE

\* v.OverflowFloat(x): |x| > math.MaxFloat32 (3.4e38) for a float32 field
OverflowFloat(kind, x) ==
    /\ kind = "float32"
    /\ x.m # 0
    /\ (x.e > 38 \/ (x.e = 38 /\ (x.m > 3 \/ x.m < -3)))

\* PropertyConverter.FromProperty of the converter type: it takes an int64
\* and refuses everything else
FromProperty(p) ==
    IF p.pt = "int64" THEN [v |-> p.v, err |-> ""]
    ELSE [v |-> 0, err |-> "converter: cannot take this property"]

\* PropertyConverter.ToProperty of the converter type: an int64 that is
\* indexed exactly when it is not negative
ToProperty(v) == Prop("int64", v, IF v < 0 THEN "NoIndex" ELSE "ShouldIndex")

\* Property.SetValue(v.Interface(), si) for a value of a field type the
\* schema accepted
SetValue(ft, v, si) ==
    CASE ft.kind \in {"int", "int8", "int16", "int32", "int64"} -> Prop("int64", v, si)
      [] ft.kind = "bool" -> Prop("bool", v, si)
      [] ft.kind = "string" -> Prop("string", v, si)
      [] ft.kind \in {"float32", "float64"} -> Prop("float64", v, si)
      [] ft.kind = "iface" -> IF v = "" THEN Prop("null", 0, si) ELSE Prop("key", v, si)
      [] ft.kind = "slice" -> Prop("bytes", v, si)
      [] ft = typeOfTime -> Prop("time", v, si)
      [] ft = typeOfGeoPoint -> Prop("geopoint", v, si)

(***************************************************************************)
(* Load                                                                    *)
(***************************************************************************)
Loaded(v, reason) == [v |-> v, reason |-> reason, panic |-> FALSE]
Panic(v) == [v |-> v, reason |-> "", panic |-> TRUE]

typeMismatchReason == "type mismatch"

\* The switch on the kind of v, lines 148-224: the new value of v, which is
\* of type ft, when property p is loaded into it.
loadValue(ft, v, p) ==
    LET isNil == p.pt = "null" IN
    CASE ft = typeOfKey ->
           IF p.pt # "key" /\ ~isNil THEN Loaded(v, typeMismatchReason)
           ELSE Loaded(IF p.pt = "key" THEN p.v ELSE v, "")
      [] ft.kind \in {"int", "int8", "int16", "int32", "int64"} ->
           IF p.pt # "int64" /\ ~isNil THEN Loaded(v, typeMismatchReason)
           ELSE LET x == IF p.pt = "int64" THEN p.v ELSE 0
                IN  IF OverflowInt(ft.kind, x) THEN Loaded(v, "value overflows struct field")
                    ELSE Loaded(x, "")
      [] ft.kind = "bool" ->
           IF p.pt # "bool" /\ ~isNil THEN Loaded(v, typeMismatchReason)
           ELSE Loaded(IF p.pt = "bool" THEN p.v ELSE FALSE, "")
      [] ft.kind = "string" ->
           IF p.pt \in {"blobkey", "string"} THEN Loaded(p.v, "")
           ELSE IF ~isNil THEN Loaded(v, typeMismatchReason)
           ELSE Loaded(v, "")
      [] ft.kind \in {"float32", "float64"} ->
           IF p.pt # "float64" /\ ~isNil THEN Loaded(v, typeMismatchReason)
           ELSE LET x == IF p.pt = "float64" THEN p.v ELSE [m |-> 0, e |-> 0]
                IN  IF OverflowFloat(ft.kind, x) THEN Loaded(v, "value overflows struct field")
                    ELSE Loaded(x, "")
      [] ft = typeOfTime ->
           IF p.pt # "time" /\ ~isNil THEN Loaded(v, typeMismatchReason)
           ELSE Loaded(IF p.pt = "time" THEN p.v ELSE ZeroOf(typeOfTime), "")
      [] ft = typeOfGeoPoint ->
           IF p.pt # "geopoint" /\ ~isNil THEN Loaded(v, typeMismatchReason)
           ELSE Loaded(IF p.pt = "geopoint" THEN p.v ELSE ZeroOf(typeOfGeoPoint), "")
      [] ft.kind = "slice" ->
           IF p.pt \in {"bytes", "bytestring"} THEN Loaded(p.v, "")
           ELSE Panic(v)
      [] OTHER -> Panic(v)

\* v.Set(reflect.Append(v, <the element loaded>)): lines 226-228
appendLoaded(v, e) ==
    IF e.panic THEN Panic(v)
    ELSE IF e.reason # "" THEN Loaded(v, e.reason)
    ELSE Loaded(Append(v, e.v), "")

\* doConversion, lines 117-131: r is what FromProperty returned
converted(v, r, isSlice) ==
    IF r.err # "" THEN Loaded(v, r.err)
    ELSE Loaded(IF isSlice THEN Append(v, r.v) ELSE r.v, "")

\* loadInner from line 117 on: property p into the field value v of type ft
loadField(ft, v, p, requireSlice) ==
    IF ft.conv THEN converted(v, FromProperty(p), FALSE)
    ELSE IF ft.kind = "slice" /\ ft.of.kind # "uint8"
    THEN IF ft.of.conv THEN converted(v, FromProperty(p), TRUE)
         ELSE appendLoaded(v, loadValue(ft.of, ZeroOf(ft.of), p))
    ELSE IF requireSlice
    THEN Loaded(v, "multiple-valued property requires a slice field type")
    ELSE loadValue(ft, v, p)

\* for v.Len() <= index { v.Set(reflect.Append(v, <zero element>)) }
Grow(v, index, elemType) ==
    [j \in 1..(IF Len(v) <= index THEN index + 1 ELSE Len(v)) |->
        IF j <= Len(v) THEN v[j] ELSE ZeroOf(elemType)]

\* the struct value with field fieldIndex as r left it
putField(structValue, fieldIndex, r) ==
    [v |-> [structValue EXCEPT ![fieldIndex] = r.v], reason |-> r.reason, panic |-> r.panic]

\* the struct value with element index of the grown slice field as r left it
putElem(structValue, fieldIndex, grown, index, r) ==
    [v |-> [structValue EXCEPT ![fieldIndex] = [grown EXCEPT ![index + 1] = r.v]],
     reason |-> r.reason, panic |-> r.panic]

RECURSIVE loadInner(_, _, _, _, _, _)

\* structValue = v.Index(index) of the grown slice of structs: lines 103-108
loadElem(structValue, fieldIndex, grown, index, sub, rest, p) ==
    putElem(structValue, fieldIndex, grown, index,
            loadInner(sub, grown[index + 1], index, rest, p, FALSE))

\* one turn of the traversal (lines 91-115) at the field fieldIndex, whose
\* structTag is st and whose type is ft, and the conversion that ends it
loadAt(structValue, index, name, p, requireSlice, fieldIndex, st, ft) ==
    IF st.substructCodec = ""
    THEN putField(structValue, fieldIndex,
                  loadField(ft, structValue[fieldIndex], p, requireSlice))
    ELSE IF ft.kind = "slice"
    THEN loadElem(structValue, fieldIndex, Grow(structValue[fieldIndex], index, ft.of), index,
                  st.substructCodec, SubSeq(name, Len(st.name) + 1, Len(name)), p)
    ELSE putField(structValue, fieldIndex,
                  loadInner(st.substructCodec, structValue[fieldIndex], index,
                            SubSeq(name, Len(st.name) + 1, Len(name)), p, requireSlice))

\* loadInner(codec, structValue, index, name, p, requireSlice), on the codec
\* of type t: the struct value afterwards, and the reason returned
loadInner(t, structValue, index, name, p, requireSlice) ==
    IF ~MapHas(structCodecs[t].byName, name) THEN Loaded(structValue, "no such struct field")
    ELSE loadAt(structValue, index, name, p, requireSlice,
                structCodecs[t].byName[name],
                structCodecs[t].byIndex[structCodecs[t].byName[name]],
                Fields(t)[structCodecs[t].byName[name]].type)

ErrFieldMismatch(name, reason) == [FieldName |-> name, Reason |-> reason]

\* convFailures = append(convFailures, &ErrFieldMismatch{...}): lines 68-77
noteFailure(acc, name, r) ==
    [o |-> r.v,
     convFailures |-> IF r.reason # ""
                      THEN Append(acc.convFailures, ErrFieldMismatch(name, r.reason))
                      ELSE acc.convFailures,
     panic |-> r.panic]

RECURSIVE loadProps(_, _, _, _, _)
\* the inner loop of Load over the values of one property, from value i on
loadProps(t, acc, name, props, i) ==
    IF i > Len(props) \/ acc.panic THEN acc
    ELSE loadProps(t,
                   noteFailure(acc, name,
                               loadInner(t, acc.o, i - 1, name, props[i], Len(props) > 1)),
                   name, props, i + 1)

RECURSIVE loadEntries(_, _, _, _)
\* the outer loop of Load; propMap is held as the sequence of its entries in
\* the order the range statement visits them
loadEntries(t, acc, propMap, k) ==
    IF k > Len(propMap) \/ acc.panic THEN acc
    ELSE loadEntries(t, loadProps(t, acc, propMap[k].name, propMap[k].props, 1),
                     propMap, k + 1)

\* lines 81-85: a MultiError of the mismatches, or nil
loadResult(r) ==
    [o |-> r.o,
     err |-> IF r.panic THEN nil
             ELSE IF Len(r.convFailures) > 0 THEN <<"MultiError">> ELSE nil,
     convFailures |-> r.convFailures,
     panic |-> r.panic]

\* Load without the test of p.Problem() at lines 58-60
LoadUnchecked(t, o, propMap) ==
    loadResult(loadEntries(t, [o |-> o, convFailures |-> <<>>, panic |-> FALSE], propMap, 1))

\* structPLS.Load on the record o of type t: the record afterwards, the
\* error returned (its problem, a MultiError, or nil) and whether it panicked
Load(t, o, propMap) ==
    IF structCodecs[t].problem # nil
    THEN [o |-> o, err |-> structCodecs[t].problem, convFailures |-> <<>>, panic |-> FALSE]
    ELSE loadResult(loadEntries(t, [o |-> o, convFailures |-> <<>>, panic |-> FALSE],
                                propMap, 1))

(***************************************************************************)
(* GetMeta, SetMeta                                                        *)
(*                                                                         *)
(* An interface{} metadata value is [kind, v] with kind "string", "int64", *)
(* "bool" or "toggle".                                                     *)
(***************************************************************************)
ErrMetaFieldUnset == <<"gae: meta field unset">>

\* GetMeta that never looks at the field: the declared default, always
metaValueDefaultOnly(st, ft, f) == [val |-> st.metaVal, err |-> nil]

\* lines 329-340: the value of the field f of type ft whose structTag is st
metaValue(st, ft, f) ==
    IF st.canSet /\ f # ZeroOf(ft)
    THEN [val |-> IF ft.kind = "toggle" THEN [kind |-> "bool", v |-> (f = "On")]
                  ELSE [kind |-> ft.kind, v |-> f],
          err |-> nil]
    ELSE [val |-> st.metaVal, err |-> nil]

\* structPLS.GetMeta(key) on the record o of type t
GetMeta(t, o, key) ==
    IF structCodecs[t].problem # nil THEN [val |-> NoVal, err |-> structCodecs[t].problem]
    ELSE IF ~MapHas(structCodecs[t].byMeta, key) THEN [val |-> NoVal, err |-> ErrMetaFieldUnset]
    ELSE metaValue(structCodecs[t].byIndex[structCodecs[t].byMeta[key]],
                   Fields(t)[structCodecs[t].byMeta[key]].type,
                   o[structCodecs[t].byMeta[key]])

\* if b, ok := val.(bool); ok { val = On / Off }
ToggleOfBool(val) ==
    IF val.kind = "bool"
    THEN [kind |-> "toggle", v |-> IF val.v THEN "On" ELSE "Off"]
    ELSE val

\* p.o.Field(idx).Set(reflect.ValueOf(val)), which panics when val is not
\* of the field's type ft
setField(o, idx, ft, val) ==
    IF val.kind # ft.kind THEN [o |-> o, err |-> nil, panic |-> TRUE]
    ELSE [o |-> [o EXCEPT ![idx] = val.v], err |-> nil, panic |-> FALSE]

\* structPLS.SetMeta(key, val) on the record o of type t
SetMeta(t, o, key, val) ==
    IF structCodecs[t].problem # nil
    THEN [o |-> o, err |-> structCodecs[t].problem, panic |-> FALSE]
    ELSE IF ~MapHas(structCodecs[t].byMeta, key)
    THEN [o |-> o, err |-> ErrMetaFieldUnset, panic |-> FALSE]
    ELSE IF ~structCodecs[t].byIndex[structCodecs[t].byMeta[key]].canSet
    THEN [o |-> o, err |-> <<"gae/helper: cannot set meta: unexported field", key>>,
          panic |-> FALSE]
    ELSE setField(o, structCodecs[t].byMeta[key],
                  Fields(t)[structCodecs[t].byMeta[key]].type, ToggleOfBool(val))

(***************************************************************************)
(* Save                                                                    *)
(*                                                                         *)
(* A PropertyMap is a function from names to sequences of properties.      *)
(* save returns what it added to the map; the running count of indexed     *)
(* properties is threaded through the elements in order.                   *)
(***************************************************************************)
\* Entities with more than this many indexed properties will not be saved.
maxIndexedProperties == 20000

errTooManyIndexed == <<"gae: too many indexed properties">>

\* propMap[name] = append(propMap[name], ...) for every name of more
AddAll(propMap, more) ==
    [n \in DOMAIN propMap \cup DOMAIN more |->
        (IF n \in DOMAIN propMap THEN propMap[n] ELSE <<>>)
        \o (IF n \in DOMAIN more THEN more[n] ELSE <<>>)]

Saved(propMap, idxCount, err) == [propMap |-> propMap, idxCount |-> idxCount, err |-> err]

\* idxCount += n, then the check against the ceiling
CountIndexed(propMap, idxCount, n) ==
    IF idxCount + n > maxIndexedProperties
    THEN Saved(propMap, idxCount + n, errTooManyIndexed)
    ELSE Saved(propMap, idxCount + n, nil)

RECURSIVE save(_, _, _, _)
RECURSIVE saveRange(_, _, _, _, _, _, _, _)

\* the two halves of the elements joined
joinRange(left, right) ==
    Saved(AddAll(left.propMap, right.propMap), right.idxCount, right.err)

\* addCount without "idxCount += count": the values of a nested record are
\* left out of the caller's count
addCountNotAdded(sub, idxCount) == Saved(sub.propMap, idxCount, sub.err)

\* lines 263-272: sub is what the nested save returned
addCount(sub, idxCount) ==
    IF sub.err = nil
    THEN CountIndexed(sub.propMap, idxCount, sub.idxCount)
    ELSE Saved(sub.propMap, idxCount, sub.err)

\* lines 283-290: propMap[name] = append(propMap[name], prop), and the count
emit(name, prop, idxCount) ==
    IF prop.idx = "ShouldIndex"
    THEN CountIndexed((name :> <<prop>>), idxCount, 1)
    ELSE Saved((name :> <<prop>>), idxCount, nil)

\* the closure saveProp, lines 262-291, for one value v, of type ft, of the
\* field whose structTag is st, with the caller's count so far
saveProp(st, ft, name, si, v, idxCount) ==
    IF st.substructCodec # ""
    THEN addCount(save(st.substructCodec, v, name, si), idxCount)
    ELSE emit(name, IF st.convert THEN ToProperty(v) ELSE SetValue(ft, v, si), idxCount)

\* the second half of the elements, if the first half went through
thenRange(left, st, ft, name, si, v, lo, hi) ==
    IF left.err # nil THEN left
    ELSE joinRange(left, saveRange(st, ft, name, si, v, lo, hi, left.idxCount))

\* for j := lo; j <= hi; j++ { if err = saveProp(..., v.Index(j), ...) ... return },
\* the elements taken in order, by halves; ft is the type of the elements
saveRange(st, ft, name, si, v, lo, hi, idxCount) ==
    IF lo > hi THEN Saved(<<>>, idxCount, nil)
    ELSE IF lo = hi THEN saveProp(st, ft, name, si, v[lo], idxCount)
    ELSE thenRange(saveRange(st, ft, name, si, v, lo, (lo + hi) \div 2, idxCount),
                   st, ft, name, si, v, (lo + hi) \div 2 + 1, hi)

\* one iteration of the loop over p.c.byIndex, lines 293-317, for the field
\* value v of type ft whose structTag is st
saveField(st, ft, v, prefix, is1, idxCount) ==
    IF st.name = <<"-">> THEN Saved(<<>>, idxCount, nil)
    ELSE IF st.isSlice
    THEN saveRange(st, ft.of, prefix \o st.name, is1, v, 1, Len(v), idxCount)
    ELSE saveProp(st, ft, prefix \o st.name, is1, v, idxCount)

\* is1: NoIndex if the field's tag says so
Is1(st, is) == IF st.idxSetting = "NoIndex" THEN "NoIndex" ELSE is

RECURSIVE saveFields(_, _, _, _, _, _)

\* return if the iteration r failed, else the next iteration
thenFields(acc, r, t, o, prefix, is, i) ==
    IF r.err # nil THEN Saved(AddAll(acc.propMap, r.propMap), r.idxCount, r.err)
    ELSE saveFields(t, o, prefix, is, i + 1,
                    Saved(AddAll(acc.propMap, r.propMap), r.idxCount, nil))

\* the loop over p.c.byIndex from field i on
saveFields(t, o, prefix, is, i, acc) ==
    IF i > Len(structCodecs[t].byIndex) THEN acc
    ELSE thenFields(acc,
                    saveField(structCodecs[t].byIndex[i], Fields(t)[i].type, o[i], prefix,
                              Is1(structCodecs[t].byIndex[i], is), acc.idxCount),
                    t, o, prefix, is, i)

\* structPLS.save(propMap, prefix, is) on the struct value o of type t
save(t, o, prefix, is) ==
    IF structCodecs[t].problem # nil THEN Saved(<<>>, 0, structCodecs[t].problem)
    ELSE saveFields(t, o, prefix, is, 1, Saved(<<>>, 0, nil))

\* p.SetValue(val, NoIndex) for a metadata value
MetaProp(val) == Prop(val.kind, val.v, "NoIndex")

\* ret["$"+k] = []Property{p} for every k of byMeta: lines 241-253
saveMeta(t, o) ==
    [k \in { <<"$">> \o key : key \in DOMAIN structCodecs[t].byMeta } |->
        << MetaProp(GetMeta(t, o, Tail(k)).val) >>]

\* lines 237-254: r is what save returned
saveResult(r, t, o, withMeta) ==
    IF r.err # nil THEN [propMap |-> nil, err |-> r.err]
    ELSE IF withMeta THEN [propMap |-> AddAll(r.propMap, saveMeta(t, o)), err |-> nil]
    ELSE [propMap |-> r.propMap, err |-> nil]

\* structPLS.Save(withMeta) on the record o of type t: (PropertyMap, error);
\* the map returned with an error is nil
Save(t, o, withMeta) == saveResult(save(t, o, <<>>, "ShouldIndex"), t, o, withMeta)

(***************************************************************************)
(* SpecLoad: Load of bounded property maps into a record of type Ent       *)
(***************************************************************************)
\* no serialiser is in play
NoBin == bufs = <<>> /\ wrote = <<>> /\ got = NoVal

\* a property has at most MaxVals values
MaxVals == 2
\* a property map of several properties has at most MaxProps of them
MaxProps == 3

Float(m, e) == [m |-> m, e |-> e]
Geo(a, b) == [lat |-> Float(a, 0), lng |-> Float(b, 0)]

\* one property value of every variant (and an int64 and a float64 that
\* overflow the narrow fields); inputs name them by their position
LoadProps ==
    << Prop("int64", 1, "ShouldIndex"), Prop("string", "s", "ShouldIndex"),
       Prop("int64", 300, "ShouldIndex"),
       Prop("float64", Float(1, 0), "ShouldIndex"), Prop("float64", Float(1, 39), "ShouldIndex"),
       Prop("bool", TRUE, "ShouldIndex"),
       Prop("blobkey", "bk", "ShouldIndex"), Prop("bytes", <<1>>, "NoIndex"),
       Prop("bytestring", <<2>>, "ShouldIndex"), Prop("time", 7, "ShouldIndex"),
       Prop("geopoint", Geo(1, 2), "ShouldIndex"), Prop("key", "k1", "ShouldIndex"),
       Prop("null", 0, "ShouldIndex") >>

\* the names of Ent's properties, one of a field the schema drops and one
\* that no field has
LoadNames ==
    { <<"I">>, <<"I8">>, <<"B">>, <<"S">>, <<"F">>, <<"F32">>, <<"K">>, <<"T">>, <<"G">>,
      <<"BS">>, <<"IS">>, <<"TS">>, <<"C">>, <<"Sub", "X">>, <<"Sub", "Y">>,
      <<"subs", "X">>, <<"subs", "Y">>, <<"Nope">> }

SeqsUpTo(S, n) == UNION { [1..k -> S] : k \in 1..n }

\* property maps with one property of up to MaxVals values
OneEntryMaps ==
    { << [name |-> n, props |-> ps] >> :
        n \in LoadNames, ps \in SeqsUpTo(1..Len(LoadProps), MaxVals) }

\* property maps with several single-valued properties (an int64 or a
\* string), in every order the range statement may visit them
SmallEntries ==
    { [name |-> n, props |-> <<p>>] :
        n \in { <<"I">>, <<"S">>, <<"BS">>, <<"subs", "X">> }, p \in {1, 2} }

ManyEntryMaps ==
    { m \in UNION { [1..k -> SmallEntries] : k \in 2..MaxProps } :
        \A i, j \in 1..Len(m) : i # j => m[i].name # m[j].name }

\* the property maps given to Load, their values named by position in LoadProps
PropMaps == OneEntryMaps \cup ManyEntryMaps

PropMapOf(m) ==
    [k \in 1..Len(m) |->
        [name |-> m[k].name,
         props |-> [i \in 1..Len(m[k].props) |-> LoadProps[m[k].props[i]]]]]

\* a record of type Ent none of whose fields holds its zero value
EntPreset ==
    << 9, 9, TRUE, "old", Float(9, 0), Float(9, 0), "k0", 9, Geo(9, 9), <<9>>, <<9>>,
       <<>>, 9, <<9, "old">>, << <<9, "old">> >> >>

LoadInit ==
    /\ NoBin
    /\ NoCache
    /\ structCodecs = getStructCodecLocked(<<>>, "Ent")
    /\ typ = "Ent"
    /\ obj \in {ZeroOf(StructT("Ent")), EntPreset}
    /\ res = NoVal
    /\ lastSet = NoVal

\* one call of Load on the record; before is the record it was called on
LoadStep ==
    /\ res = NoVal
    /\ \E m \in PropMaps :
         LET r == Load(typ, obj, PropMapOf(m))
         IN  /\ obj' = r.o
             /\ res' = [op |-> "Load", propMap |-> PropMapOf(m), before |-> obj, err |-> r.err,
                        convFailures |-> r.convFailures, panic |-> r.panic]
    /\ UNCHANGED <<binVars, cacheVars, structCodecs, typ, lastSet>>

LoadNext == LoadStep

SpecLoad == LoadInit /\ [][LoadNext]_vars

(***************************************************************************)
(* Claims on Load                                                          *)
(***************************************************************************)
\* the coercion table: the property variants a field of type ft accepts,
\* a sequence field by the type of its elements
InTable(ft, pt) ==
    LET s == IF ft.kind = "slice" /\ ft.of.kind # "uint8" THEN ft.of ELSE ft IN
    CASE s = typeOfKey -> pt \in {"key", "null"}
      [] s = typeOfTime -> pt = "time"
      [] s = typeOfGeoPoint -> pt = "geopoint"
      [] s.kind \in {"int", "int8", "int16", "int32", "int64"} -> pt = "int64"
      [] s.kind = "bool" -> pt = "bool"
      [] s.kind = "string" -> pt \in {"string", "blobkey"}
      [] s.kind \in {"float32", "float64"} -> pt = "float64"
      [] s.kind = "slice" -> pt \in {"bytes", "bytestring"}
      [] OTHER -> FALSE

\* the value is out of the range of the field's width
OutOfRange(ft, p) ==
    \/ p.pt = "int64" /\ OverflowInt(ft.kind, p.v)
    \/ p.pt = "float64" /\ OverflowFloat(ft.kind, p.v)

\* the top-level fields of Ent that the coercion table governs
TableFields == { i \in 1..NumField("Ent") : Fields("Ent")[i].Name \in
                    {"I", "I8", "B", "S", "F", "F32", "K", "T", "G", "BS", "IS"} }

\* the mismatches reported for the property called name
MismatchesOf(name) ==
    { j \in 1..Len(res.convFailures) : res.convFailures[j].FieldName = name }

\* Load was called with one single-valued property, for field i of Ent
LoadedOneInto(i) ==
    /\ res # NoVal
    /\ Len(res.propMap) = 1
    /\ Len(res.propMap[1].props) = 1
    /\ res.propMap[1].name = <<Fields("Ent")[i].Name>>

\* what C5 asks of a Load of the single value p into field i, of type ft
TableObeyed(i, ft, p) ==
    /\ ~res.panic
    /\ IF InTable(ft, p.pt) /\ ~OutOfRange(ft, p)
       THEN /\ res.err = nil
            /\ p.pt # "null" =>
                 obj[i] = IF ft.kind = "slice" /\ ft.of.kind # "uint8"
                          THEN Append(res.before[i], p.v) ELSE p.v
       ELSE /\ Cardinality(MismatchesOf(res.propMap[1].name)) = 1
            /\ obj[i] = res.before[i]

\* C5: Load accepts exactly the (field shape, property variant) pairs of the
\* coercion table: a pair outside the table is reported as a mismatch for
\* that property, leaves the field as it was and does not panic; a pair in
\* the table is stored.
C5_CoercionTable ==
    \A i \in TableFields :
        LoadedOneInto(i) => TableObeyed(i, Fields("Ent")[i].type, res.propMap[1].props[1])

\* entry k of the property map is a single value the table accepts for the
\* non-sequence field it names
Acceptable(k, i) ==
    /\ res.propMap[k].name = <<Fields("Ent")[i].Name>>
    /\ Len(res.propMap[k].props) = 1
    /\ Fields("Ent")[i].type.kind # "slice"
    /\ InTable(Fields("Ent")[i].type, res.propMap[k].props[1].pt)
    /\ res.propMap[k].props[1].pt # "null"
    /\ ~OutOfRange(Fields("Ent")[i].type, res.propMap[k].props[1])

\* C4: Load processes every value of every entry whatever went wrong
\* before: it does not stop, every field whose value is acceptable holds
\* that value afterwards, and the aggregate error has exactly one mismatch
\* for each offending property and none for the others.
C4_PartialLoad ==
    res # NoVal =>
        /\ ~res.panic
        /\ \A k \in 1..Len(res.propMap) :
             /\ Cardinality(MismatchesOf(res.propMap[k].name)) <= 1
             /\ \A i \in TableFields :
                  Acceptable(k, i) =>
                      /\ obj[i] = res.propMap[k].props[1].v
                      /\ MismatchesOf(res.propMap[k].name) = {}
        /\ (res.err = nil) = (res.convFailures = <<>>)

(***************************************************************************)
(* SpecSave: Save of records of type Outer, small ones and ones whose      *)
(* number of indexed values is around the ceiling                          *)
(***************************************************************************)
\* a small record has at most MaxSmall values in each repeated field
MaxSmall == 2
\* a big record has within Slack of maxIndexedProperties indexed values
Slack == 1

Ones(n) == [j \in 1..n |-> 1]
Inners(n) == [j \in 1..n |-> <<1, "y">>]
\* converter values, every second one negative (and so saved unindexed)
Convs(n) == [j \in 1..n |-> IF j % 2 = 0 THEN 0 - 1 ELSE 1]

\* the record of type Outer with a values in A, b in B, xs in S.Xs, is
\* nested records in Is and c converter values in C
OuterRecord(a, b, xs, is, c) ==
    << Ones(a), Ones(b), << Ones(xs) >>, Inners(is), Convs(c), 3, 0 >>

SmallRecords ==
    { OuterRecord(a, b, xs, is, c) : a \in 0..MaxSmall, b \in 0..1, xs \in 0..MaxSmall,
                                     is \in 0..MaxSmall, c \in 0..MaxSmall }

Half == maxIndexedProperties \div 2

\* records with n indexed values: all in one field, split between a field
\* and nested records, spread over every nesting level, and partly from
\* converters; and one with n values that are not indexed
BigRecordsOf(n) ==
    { OuterRecord(n, 0, 0, 0, 0),
      OuterRecord(n - Half, 0, 0, Half, 0),
      OuterRecord(1, 1, n - 2, 1, 0),
      OuterRecord(n - Half, 0, 0, 0, 2 * Half),
      OuterRecord(1, n, 0, 0, 0) }

BigRecords ==
    UNION { BigRecordsOf(n) :
              n \in (maxIndexedProperties - Slack)..(maxIndexedProperties + Slack) }

SaveInit ==
    /\ NoBin
    /\ NoCache
    /\ structCodecs = getStructCodecLocked(<<>>, "Outer")
    /\ typ = "Outer"
    /\ obj \in SmallRecords \cup BigRecords
    /\ res = NoVal
    /\ lastSet = NoVal

\* one call of Save on the record
SaveStep ==
    /\ res = NoVal
    /\ \E withMeta \in BOOLEAN :
         res' = [op |-> "Save", withMeta |-> withMeta, r |-> Save(typ, obj, withMeta)]
    /\ UNCHANGED <<binVars, cacheVars, structCodecs, typ, obj, lastSet>>

SaveNext == SaveStep

SpecSave == SaveInit /\ [][SaveNext]_vars

(***************************************************************************)
(* Claim on Save                                                           *)
(***************************************************************************)
\* The number of should-index values in a record o of type Outer, counted
\* on the record: A, S.Xs and Is.X are indexed, b and Is.Y are not, and a
\* converter value of C is indexed unless it is negative.
TotalIndexed(o) ==
    Len(o[1]) + Len(o[3][1]) + Len(o[4])
    + Cardinality({ j \in 1..Len(o[5]) : o[5][j] >= 0 })

\* the number of should-index values under name n of propMap
IndexedUnder(propMap, n) ==
    Cardinality({ j \in 1..Len(propMap[n]) : propMap[n][j].idx = "ShouldIndex" })

RECURSIVE SumOver(_, _)
SumOver(propMap, names) ==
    IF names = {} THEN 0
    ELSE LET n == CHOOSE x \in names : TRUE
         IN  IndexedUnder(propMap, n) + SumOver(propMap, names \ {n})

\* C3: Save succeeds exactly when the number of should-index values of the
\* whole record tree is at most maxIndexedProperties, and then the map has
\* that many indexed values; above it, Save returns the over-limit error
\* and no property map.
C3_IndexedCeiling ==
    res # NoVal =>
        /\ (res.r.err = nil) = (TotalIndexed(obj) <= maxIndexedProperties)
        /\ res.r.err = nil =>
             SumOver(res.r.propMap, DOMAIN res.r.propMap) = TotalIndexed(obj)
        /\ res.r.err # nil => res.r.err = errTooManyIndexed /\ res.r.propMap = nil

\* Save refused a record that is one value over the ceiling, with the
\* values spread over a field, a nested record and repeated nested records
C3_Witness ==
    /\ res # NoVal
    /\ TotalIndexed(obj) = maxIndexedProperties + 1
    /\ Len(obj[1]) > 0 /\ Len(obj[3][1]) > 0 /\ Len(obj[4]) > 0
    /\ res.r.err = errTooManyIndexed
    /\ res.r.propMap = nil

(***************************************************************************)
(* SpecMeta: SetMeta and GetMeta on a record of type Meta                  *)
(***************************************************************************)
\* SetMeta is called at most MaxSets times on the record
MaxSets == 2

\* the values given to SetMeta, named by position: the zero value, the
\* declared default and another value of each type, and the booleans
MetaVals ==
    << [kind |-> "int64", v |-> 0], [kind |-> "int64", v |-> 5], [kind |-> "int64", v |-> 9],
       [kind |-> "string", v |-> ""], [kind |-> "string", v |-> "K"],
       [kind |-> "string", v |-> "x"],
       [kind |-> "bool", v |-> TRUE], [kind |-> "bool", v |-> FALSE] >>

\* the metadata keys of Meta, and one it does not have
MetaKeys == {"id", "n", "kind", "name", "on", "off", "hid", "nope"}

MetaInit ==
    /\ NoBin
    /\ NoCache
    /\ structCodecs = getStructCodecLocked(<<>>, "Meta")
    /\ typ = "Meta"
    /\ obj = ZeroOf(StructT("Meta"))
    /\ res = NoVal
    /\ lastSet = [n |-> 0, panic |-> FALSE]

\* one call of SetMeta; a panic ends the program
SetMetaStep ==
    /\ ~lastSet.panic
    /\ lastSet.n < MaxSets
    /\ \E key \in MetaKeys, i \in 1..Len(MetaVals) :
         LET r == SetMeta(typ, obj, <<key>>, MetaVals[i])
         IN  /\ obj' = r.o
             /\ lastSet' = [n |-> lastSet.n + 1, key |-> key, val |-> MetaVals[i],
                            before |-> obj, err |-> r.err, panic |-> r.panic]
    /\ res' = NoVal
    /\ UNCHANGED <<binVars, cacheVars, structCodecs, typ>>

\* one call of GetMeta
GetMetaStep ==
    /\ ~lastSet.panic
    /\ \E key \in MetaKeys :
         res' = [op |-> "GetMeta", key |-> key, r |-> GetMeta(typ, obj, <<key>>)]
    /\ UNCHANGED <<binVars, cacheVars, structCodecs, typ, obj, lastSet>>

MetaNext == SetMetaStep \/ GetMetaStep

SpecMeta == MetaInit /\ [][MetaNext]_vars

(***************************************************************************)
(* Claim on SetMeta / GetMeta                                              *)
(***************************************************************************)
SameVal(a, b) == a.kind = b.kind /\ a.v = b.v

\* the zero value of its type
IsZeroVal(val) ==
    \/ val.kind = "int64" /\ val.v = 0
    \/ val.kind = "string" /\ val.v = ""

\* GetMeta(key) has followed a SetMeta(key, v) that succeeded
GotAfterSet ==
    /\ res # NoVal
    /\ lastSet.n > 0
    /\ ~lastSet.panic
    /\ lastSet.err = nil
    /\ res.key = lastSet.key

\* SetMeta was refused: the key is unknown or its field is not exported
SetRefused ==
    /\ lastSet.n > 0
    /\ lastSet.key \in {"nope", "hid"}

RefusedLeavesRecord == SetRefused => lastSet.err # nil /\ ~lastSet.panic /\ obj = lastSet.before

\* C10 as stated: after SetMeta(key, v) succeeds, GetMeta(key) returns v,
\* for every v of the field's type, the zero value included; SetMeta on an
\* unknown key or a non-exported field returns an error and leaves the
\* record unchanged.
C10_RoundTrip ==
    /\ GotAfterSet => res.r.err = nil /\ SameVal(res.r.val, lastSet.val)
    /\ RefusedLeavesRecord

\* the default declared in the tag of the metadata field key
DeclaredDefault(key) == structCodecs["Meta"].byIndex[structCodecs["Meta"].byMeta[<<key>>]].metaVal

\* C10 amended: after SetMeta(key, v) succeeds, GetMeta(key) returns v when
\* v is not the zero value of the field's type, and the default declared
\* for the field when v is the zero value; SetMeta on an unknown key or a
\* non-exported field returns an error and leaves the record unchanged.
C10_RoundTripNonZero ==
    /\ GotAfterSet =>
         /\ res.r.err = nil
         /\ SameVal(res.r.val,
                    IF IsZeroVal(lastSet.val) THEN DeclaredDefault(lastSet.key)
                    ELSE lastSet.val)
    /\ RefusedLeavesRecord

\* false was set on the toggle field whose default is on, and read back
C10_Witness ==
    /\ GotAfterSet
    /\ lastSet.key = "on"
    /\ lastSet.val.kind = "bool" /\ ~lastSet.val.v
    /\ res.r.val.kind = "bool" /\ ~res.r.val.v

(***************************************************************************)
(* SpecSchema: schemas are requested one after the other (the cache lock   *)
(* is held for the whole of each request), and records of the requested    *)
(* types are loaded, saved and have their metadata read and set            *)
(***************************************************************************)
\* new types are requested while the cache holds fewer than MaxCached types
MaxCached == 3

\* the types records are made of
RecordTypes == Types \ {"time.Time", "GeoPoint"}

\* one more codec created for every type of new
Count(new) ==
    [t \in DOMAIN built \cup new |->
        (IF t \in DOMAIN built THEN built[t] ELSE 0) + (IF t \in new THEN 1 ELSE 0)]

SchemaInit ==
    /\ NoBin
    /\ structCodecs = <<>>
    /\ typ = ""
    /\ obj = <<>>
    /\ res = NoVal
    /\ lastSet = NoVal
    /\ NoCache

\* the codec of t is requested, and a zero record of type t is wrapped
Request(t) ==
    /\ t \in DOMAIN structCodecs \/ Cardinality(DOMAIN structCodecs) < MaxCached
    /\ structCodecs' = getStructCodecLocked(structCodecs, t)
    /\ built' = Count(DOMAIN structCodecs' \ DOMAIN structCodecs)
    /\ typ' = t
    /\ obj' = ZeroOf(StructT(t))
    /\ res' = NoVal
    /\ UNCHANGED <<binVars, lastSet, mutex, pc, want, have>>

Returned(op, err, out, panic) ==
    [op |-> op, err |-> err, out |-> out, before |-> obj, panic |-> panic]

\* the property maps loaded: an int64 for a field called V, X or Val
SchemaPropMaps ==
    { << [name |-> <<n>>, props |-> << Prop("int64", 1, "ShouldIndex") >>] >> :
        n \in {"V", "X", "Val"} }

LoadOp ==
    /\ typ # ""
    /\ \E propMap \in SchemaPropMaps :
         /\ obj' = Load(typ, obj, propMap).o
         /\ res' = Returned("Load", Load(typ, obj, propMap).err, nil,
                            Load(typ, obj, propMap).panic)
    /\ UNCHANGED <<binVars, cacheVars, structCodecs, typ, lastSet>>

SaveOp ==
    /\ typ # ""
    /\ \E withMeta \in BOOLEAN :
         res' = Returned("Save", Save(typ, obj, withMeta).err,
                         Save(typ, obj, withMeta).propMap, FALSE)
    /\ UNCHANGED <<binVars, cacheVars, structCodecs, typ, obj, lastSet>>

GetMetaOp ==
    /\ typ # ""
    /\ \E key \in {"id", "nope"} :
         res' = Returned("GetMeta", GetMeta(typ, obj, <<key>>).err,
                         GetMeta(typ, obj, <<key>>).val, FALSE)
    /\ UNCHANGED <<binVars, cacheVars, structCodecs, typ, obj, lastSet>>

SetMetaOp ==
    /\ typ # ""
    /\ \E key \in {"id", "nope"} :
         /\ obj' = SetMeta(typ, obj, <<key>>, [kind |-> "int64", v |-> 9]).o
         /\ res' = Returned("SetMeta",
                            SetMeta(typ, obj, <<key>>, [kind |-> "int64", v |-> 9]).err, nil,
                            SetMeta(typ, obj, <<key>>, [kind |-> "int64", v |-> 9]).panic)
    /\ UNCHANGED <<binVars, cacheVars, structCodecs, typ, lastSet>>

SchemaNext ==
    \/ \E t \in RecordTypes : Request(t)
    \/ LoadOp
    \/ SaveOp
    \/ GetMetaOp
    \/ SetMetaOp

SpecSchema == SchemaInit /\ [][SchemaNext]_vars

(***************************************************************************)
(* Claims on schema problems                                               *)
(***************************************************************************)
\* an operation on a record whose type has a problem returned that problem,
\* left the record alone and produced nothing; the field tables of a codec
\* with a problem are released
ProblemReturned ==
    /\ \A t \in DOMAIN structCodecs :
         structCodecs[t].problem # nil =>
             /\ structCodecs[t].byIndex = nil
             /\ structCodecs[t].byName = nil
             /\ structCodecs[t].byMeta = nil
    /\ (res # NoVal /\ structCodecs[typ].problem # nil) =>
         /\ res.err = structCodecs[typ].problem
         /\ ~res.panic
         /\ obj = res.before
         /\ res.op = "Save" => res.out = nil
         /\ res.op = "GetMeta" => res.out = NoVal

\* a codec with a problem stays as it is, and is not created again
ProblemKept ==
    \A t \in DOMAIN structCodecs :
        structCodecs[t].problem # nil =>
            /\ t \in DOMAIN structCodecs'
            /\ structCodecs'[t] = structCodecs[t]
            /\ built'[t] = built[t]

\* C6: once the cached schema of a type carries a problem, every later
\* Load, Save, GetMeta and SetMeta on a record of that type returns that
\* stored error, in any order and any number of times, without the schema
\* being rebuilt or changed, with the field tables released and unread, the
\* record unmodified and no property map produced.
C6_ProblemShortCircuits == []ProblemReturned /\ [][ProblemKept]_vars

\* Load on a record of a type on a cycle returned the stored problem
C6_Witness ==
    /\ res # NoVal
    /\ res.op = "Load"
    /\ typ = "CycB"
    /\ structCodecs[typ].problem # nil
    /\ res.err = structCodecs[typ].problem
    /\ built[typ] = 1

\* C7: whatever the order in which schemas were first requested, the
\* schema cached for a type is the one that a request for that type alone
\* caches: the same tables for a valid type, the same error for an invalid
\* one, also for every type on a cycle of nested record types.
C7_SameSchemaAnyOrder ==
    \A t \in DOMAIN structCodecs : structCodecs[t] = getStructCodecLocked(<<>>, t)[t]

(***************************************************************************)
(* SpecCache: goroutines calling getCodec.  getCodec looks the type up     *)
(* under the read lock and returns a hit; on a miss it takes the write     *)
(* lock and calls getStructCodecLocked, which looks the type up again.     *)
(* getStructCodecLocked is taken in two steps, the insertion of the new    *)
(* codec (lines 409-431) and the loop over the fields with all the nested  *)
(* calls (lines 433-560), both under the write lock.                       *)
(***************************************************************************)
NumThreads == 2

Threads == 1..NumThreads

\* the types asked for: valid ones, one nested in another, and cyclic ones
CacheTypes == {"Inner", "Outer", "CycA", "CycB", "Self"}

CacheInit ==
    /\ NoBin
    /\ NoPLS
    /\ structCodecs = <<>>
    /\ mutex = [writer |-> 0, readers |-> {}]
    /\ pc = [th \in Threads |-> "idle"]
    /\ want = [th \in Threads |-> ""]
    /\ have = [th \in Threads |-> NoVal]
    /\ built = <<>>

\* getCodec(t) is called
Call(th, t) ==
    /\ pc[th] = "idle"
    /\ pc' = [pc EXCEPT ![th] = "rlock"]
    /\ want' = [want EXCEPT ![th] = t]
    /\ have' = [have EXCEPT ![th] = NoVal]
    /\ UNCHANGED <<binVars, plsVars, structCodecs, mutex, built>>

\* structCodecsMutex.RLock()
RLock(th) ==
    /\ pc[th] = "rlock"
    /\ mutex.writer = 0
    /\ mutex' = [mutex EXCEPT !.readers = @ \cup {th}]
    /\ pc' = [pc EXCEPT ![th] = "lookup"]
    /\ UNCHANGED <<binVars, plsVars, structCodecs, want, have, built>>

\* c, ok := structCodecs[t]; structCodecsMutex.RUnlock(); if ok { return c }
Lookup(th) ==
    /\ pc[th] = "lookup"
    /\ mutex' = [mutex EXCEPT !.readers = @ \ {th}]
    /\ IF want[th] \in DOMAIN structCodecs
       THEN /\ have' = [have EXCEPT ![th] = structCodecs[want[th]]]
            /\ pc' = [pc EXCEPT ![th] = "done"]
       ELSE /\ pc' = [pc EXCEPT ![th] = "lock"]
            /\ UNCHANGED have
    /\ UNCHANGED <<binVars, plsVars, structCodecs, want, built>>

\* structCodecsMutex.Lock()
Lock(th) ==
    /\ pc[th] = "lock"
    /\ mutex.writer = 0
    /\ mutex.readers = {}
    /\ mutex' = [mutex EXCEPT !.writer = th]
    /\ pc' = [pc EXCEPT ![th] = "locked"]
    /\ UNCHANGED <<binVars, plsVars, structCodecs, want, have, built>>

\* getStructCodecLocked without the look-up at lines 409-411: a new codec
\* is made and inserted whatever the cache holds
BeginNoRecheck(th) ==
    /\ pc[th] = "locked"
    /\ structCodecs' = InsertNew(structCodecs, want[th])
    /\ built' = Count({want[th]})
    /\ pc' = [pc EXCEPT ![th] = "building"]
    /\ UNCHANGED <<binVars, plsVars, mutex, want, have>>

\* getStructCodecLocked, lines 408-431: the cached codec is returned, or a
\* new one, marked recursive, is inserted
Begin(th) ==
    /\ pc[th] = "locked"
    /\ IF want[th] \in DOMAIN structCodecs
       THEN /\ have' = [have EXCEPT ![th] = structCodecs[want[th]]]
            /\ pc' = [pc EXCEPT ![th] = "rehit"]
            /\ UNCHANGED <<structCodecs, built>>
       ELSE /\ structCodecs' = InsertNew(structCodecs, want[th])
            /\ built' = Count({want[th]})
            /\ pc' = [pc EXCEPT ![th] = "building"]
            /\ UNCHANGED have
    /\ UNCHANGED <<binVars, plsVars, mutex, want>>

\* getStructCodecLocked, lines 433-560: the fields are processed, nested
\* struct types built on the way, and the codec is returned
Finish(th) ==
    /\ pc[th] = "building"
    /\ structCodecs' = processFields(structCodecs, want[th], 1)
    /\ built' = Count(DOMAIN structCodecs' \ DOMAIN structCodecs)
    /\ have' = [have EXCEPT ![th] = structCodecs'[want[th]]]
    /\ pc' = [pc EXCEPT ![th] = "made"]
    /\ UNCHANGED <<binVars, plsVars, mutex, want>>

\* the deferred structCodecsMutex.Unlock()
Unlock(th) ==
    /\ pc[th] \in {"rehit", "made"}
    /\ mutex' = [mutex EXCEPT !.writer = 0]
    /\ pc' = [pc EXCEPT ![th] = "done"]
    /\ UNCHANGED <<binVars, plsVars, structCodecs, want, have, built>>

\* the caller goes on, and may call getCodec again
Return(th) ==
    /\ pc[th] = "done"
    /\ pc' = [pc EXCEPT ![th] = "idle"]
    /\ UNCHANGED <<binVars, plsVars, structCodecs, mutex, want, have, built>>

CacheNext ==
    \E th \in Threads :
        \/ \E t \in CacheTypes : Call(th, t)
        \/ RLock(th)
        \/ Lookup(th)
        \/ Lock(th)
        \/ Begin(th)
        \/ Finish(th)
        \/ Unlock(th)
        \/ Return(th)

SpecCache == CacheInit /\ [][CacheNext]_vars

(***************************************************************************)
(* Claim on the cache                                                      *)
(***************************************************************************)
\* a codec whose construction is over: no marker, and either a problem
\* and no tables, or the complete tables of its type
Complete(c, t) ==
    /\ c.problem # errRecursiveStruct
    /\ c.problem # nil => c.byIndex = nil /\ c.byName = nil /\ c.byMeta = nil
    /\ c.problem = nil => c = getStructCodecLocked(<<>>, t)[t]

\* at most one codec was made for each type, and the codec a goroutine
\* obtained is complete and is the one the cache holds
CacheSafe ==
    /\ \A t \in DOMAIN built : built[t] <= 1
    /\ \A th \in Threads :
         have[th] # NoVal =>
             /\ Complete(have[th], want[th])
             /\ want[th] \in DOMAIN structCodecs
             /\ structCodecs[want[th]] = have[th]

\* a cached codec that does not carry the marker is never changed
PublishedKept ==
    \A t \in DOMAIN structCodecs :
        structCodecs[t].problem # errRecursiveStruct =>
            t \in DOMAIN structCodecs' /\ structCodecs'[t] = structCodecs[t]

\* C8: in every interleaving of goroutines calling getCodec, at most one
\* codec is ever made and cached for a type, no goroutine obtains a codec
\* that still carries the recursion marker or has partly filled tables,
\* although the codec is inserted before its fields are processed, and a
\* codec that has been obtained never changes.
C8_CacheUnderConcurrency == []CacheSafe /\ [][PublishedKept]_vars

\* two goroutines missed the same type under the read lock; one made the
\* codec, the other found it when it looked again under the write lock
C8_Witness ==
    \E th1, th2 \in Threads :
        /\ th1 # th2
        /\ want[th1] = want[th2]
        /\ pc[th1] = "rehit"
        /\ have[th1] # NoVal /\ have[th1] = have[th2]
        /\ built[want[th1]] = 1

====
